---- MODULE Spec2Model ----
(***************************************************************************)
(* Carmichael_Storage: the two driver programs over new_table.txt.         *)
(*   counter.cpp      the histogram of token counts, with one cumulative   *)
(*                    row printed each time a principal exceeds the bound  *)
(*   imprimitive.cpp  the filter of the lines whose principal is divisible *)
(*                    by 5717264681, written to divisors.txt               *)
(* A line is a sequence of one-character strings.  An mpz_class value is   *)
(* the sequence of its decimal digits, most significant first, without     *)
(* leading zeros (zero is the empty sequence), so no value is bounded by   *)
(* a machine word.                                                         *)
(***************************************************************************)
EXTENDS Integers, Sequences, FiniteSets, TLC

VARIABLES prog, pc, file, line, v_nums, front, bound, counter, i,
          prime_count, out, output_file, cerr

vars == <<prog, pc, file, line, v_nums, front, bound, counter, i,
          prime_count, out, output_file, cerr>>

\* Number of lines the input file holds at most.
MaxLines == 4

(***************************************************************************)
(* Characters and mpz_class                                                *)
(***************************************************************************)
DigitChars == {"0", "1", "2", "3", "4", "5", "6", "7", "8", "9"}

DigitOf(c) ==
    CASE c = "0" -> 0 [] c = "1" -> 1 [] c = "2" -> 2 [] c = "3" -> 3
      [] c = "4" -> 4 [] c = "5" -> 5 [] c = "6" -> 6 [] c = "7" -> 7
      [] c = "8" -> 8 [] c = "9" -> 9

RECURSIVE StripZeros(_)
StripZeros(d) ==
    IF d = <<>> THEN <<>>
    ELSE IF d[1] = 0 THEN StripZeros(Tail(d)) ELSE d

\* mpz_class(temp_string, 10) accepts the token: mpz_set_str wants at least
\* one digit and nothing but digits (the model's alphabet has no sign and no
\* whitespace other than the separator).
ValidToken(tok) == tok # <<>> /\ \A k \in 1..Len(tok) : tok[k] \in DigitChars

\* The value mpz_class(temp_string, 10) constructs from a valid token.
ParseMpz(tok) == StripZeros([k \in 1..Len(tok) |-> DigitOf(tok[k])])

Zero == <<>>

\* a <= b, what the loop test would be were it written bound <= v_nums[0].
MpzLessEq(a, b) ==
    \/ Len(a) < Len(b)
    \/ /\ Len(a) = Len(b)
       /\ \/ a = b
          \/ \E k \in 1..Len(a) :
                /\ a[k] < b[k]
                /\ \A j \in 1..(k - 1) : a[j] = b[j]

\* a < b on mpz_class.
MpzLess(a, b) ==
    \/ Len(a) < Len(b)
    \/ /\ Len(a) = Len(b)
       /\ \E k \in 1..Len(a) :
             /\ a[k] < b[k]
             /\ \A j \in 1..(k - 1) : a[j] = b[j]

\* bound *= 10
MpzMul10(a) == IF a = Zero THEN Zero ELSE Append(a, 0)

\* a - b for a >= b, digit by digit from the least significant end.
RECURSIVE SubDigits(_, _, _)
SubDigits(a, b, borrow) ==
    IF a = <<>> THEN <<>>
    ELSE LET x  == a[Len(a)]
             y  == IF b = <<>> THEN 0 ELSE b[Len(b)]
             t  == x - y - borrow
             a1 == SubSeq(a, 1, Len(a) - 1)
             b1 == IF b = <<>> THEN <<>> ELSE SubSeq(b, 1, Len(b) - 1)
         IN  IF t < 0 THEN Append(SubDigits(a1, b1, 1), t + 10)
                      ELSE Append(SubDigits(a1, b1, 0), t)

MpzSub(a, b) == StripZeros(SubDigits(a, b, 0))

RECURSIVE Reduce(_, _)
Reduce(r, m) == IF MpzLess(r, m) THEN r ELSE Reduce(MpzSub(r, m), m)

\* a % m for a >= 0, m > 0: long division, one digit of a at a time.
RECURSIVE MpzModFrom(_, _, _)
MpzModFrom(r, a, m) ==
    IF a = <<>> THEN r
    ELSE MpzModFrom(Reduce(StripZeros(Append(r, a[1])), m), Tail(a), m)

MpzMod(a, m) == MpzModFrom(Zero, a, m)

(***************************************************************************)
(* Tokenizing: std::stringstream ss(line); getline(ss, temp_string, ' ')   *)
(***************************************************************************)
RECURSIVE FirstSpace(_, _)
FirstSpace(s, k) ==
    IF k > Len(s) THEN k
    ELSE IF s[k] = " " THEN k ELSE FirstSpace(s, k + 1)

\* The tokens the inner getline loop extracts: an empty line and the end of
\* a line after a trailing separator give no token, a leading or doubled
\* separator gives an empty token.
RECURSIVE Split(_)
Split(s) ==
    IF s = <<>> THEN <<>>
    ELSE LET k == FirstSpace(s, 1)
         IN  <<SubSeq(s, 1, k - 1)>> \o Split(SubSeq(s, k + 1, Len(s)))

\* The index of the first token mpz_class rejects (0: none).
RECURSIVE FirstBad(_, _)
FirstBad(toks, k) ==
    IF k > Len(toks) THEN 0
    ELSE IF ValidToken(toks[k]) THEN FirstBad(toks, k + 1) ELSE k

\* v_nums after the push_back loop over the tokens, up to the first token
\* whose construction throws.
Pushed(toks) ==
    LET b == FirstBad(toks, 1)
        n == IF b = 0 THEN Len(toks) ELSE b - 1
    IN  [k \in 1..n |-> ParseMpz(toks[k])]

Throws(toks) == FirstBad(toks, 1) # 0

(***************************************************************************)
(* The input file new_table.txt                                            *)
(***************************************************************************)
RECURSIVE JoinSp(_)
JoinSp(toks) ==
    IF toks = <<>> THEN <<>>
    ELSE IF Len(toks) = 1 THEN toks[1]
    ELSE toks[1] \o <<" ">> \o JoinSp(Tail(toks))

\* A line holding the principal p followed by n prime divisors.
RecordLine(p, n) == JoinSp(<<p>> \o [k \in 1..n |-> <<"7">>])

EmptyLine == <<>>
DoubledSpaceLine == <<"5", "0", " ", " ", "7">>
BadDigitLine == <<"5", "x", " ", "7">>

\* The lines counter.cpp is run on: principals on both sides of the bounds
\* 1000, 10000 and 100000 and on the bound itself, with 1, 4, 8, 15, 19, 20
\* and 21 tokens, and two lines that are no record.
CounterLines ==
    { RecordLine(<<"5", "0", "0">>, 3),
      RecordLine(<<"1", "0", "0", "0">>, 0),
      RecordLine(<<"5", "0", "0", "0">>, 7),
      RecordLine(<<"5", "0", "0", "0", "0">>, 14),
      RecordLine(<<"5", "0", "0", "0", "0", "0">>, 18),
      RecordLine(<<"9", "0", "0">>, 19),
      RecordLine(<<"7", "0", "0">>, 20),
      EmptyLine,
      DoubledSpaceLine }

\* The lines imprimitive.cpp is run on: 5717264681, its successor, its double
\* (written with a leading zero) and a small principal, and two lines that
\* are no record.
FilterLines ==
    { RecordLine(<<"5", "7", "1", "7", "2", "6", "4", "6", "8", "1">>, 3),
      RecordLine(<<"5", "7", "1", "7", "2", "6", "4", "6", "8", "2">>, 1),
      RecordLine(<<"0", "1", "1", "4", "3", "4", "5", "2", "9", "3", "6", "2">>, 2),
      RecordLine(<<"5", "0", "0">>, 0),
      EmptyLine,
      BadDigitLine }

Lines(p) == IF p = "counter" THEN CounterLines ELSE FilterLines

(***************************************************************************)
(* Undefined behaviour                                                     *)
(***************************************************************************)
\* v_nums[0] of an empty vector.  Before the first push_back the vector has
\* no storage and the read faults; after clear() the slot holds a destroyed
\* mpz_class whose limbs are freed, and the read gives whatever is there.
FrontOutcomes(v, storage) ==
    IF v # <<>> THEN {[fault |-> FALSE, val |-> v[1]]}
    ELSE {[fault |-> TRUE, val |-> Zero]}
            \cup IF storage
                 THEN {[fault |-> FALSE, val |-> g] : g \in {Zero, <<5, 0, 0, 0, 0>>}}
                 ELSE {}

\* prime_count[k]++ for k >= 20 writes above the array.  With g++ -O0 the
\* word at prime_count[20] is padding and the one at prime_count[21] is i;
\* with optimization i is no object and the word belongs to something else.
OutOfRangeOutcomes == {"lost", "i", "abort"}

(***************************************************************************)
(* counter.cpp                                                             *)
(***************************************************************************)
NumBuckets == 20
FirstCol == 4
LastCol == 15
InitialI == 2
InitialBound == <<1, 0, 0, 0>>

\* The row were its columns taken one slot further up.
RowOffByOne(pcnt) == [j \in 1..(LastCol - FirstCol + 1) |-> pcnt[FirstCol + j]]

\* The twelve numbers of one printed row: prime_count[4..14], each followed
\* by "&", then prime_count[15].
Row(pcnt) ==
    [j \in 1..(LastCol - FirstCol) |-> pcnt[FirstCol + j - 1]] \o <<pcnt[LastCol]>>

\* The subscript were it the number of divisors.
BucketIndexDivisors(v) == Len(v) - 1

\* The subscript of prime_count[ v_nums.size() ]++.
BucketIndex(v) == Len(v)

\* The update were it an assignment of 1.
BumpAssign(pcnt, k) == [pcnt EXCEPT ![k] = 1]

\* prime_count[k]++ for a k inside the array (uint32_t: no input of the
\* model comes near 2^32 lines).
Bump(pcnt, k) == [pcnt EXCEPT ![k] = @ + 1]

\* The final row were it printed only when something was counted.
FinalRowsIfAny(pcnt) ==
    IF \A k \in DOMAIN pcnt : pcnt[k] = 0 THEN <<>> ELSE <<Row(pcnt)>>

\* What the loop after the last line prints.
FinalRows(pcnt) == <<Row(pcnt)>>

Init ==
    /\ prog \in {"counter", "imprimitive"}
    /\ pc = "start"
    /\ file = <<>>
    /\ line = <<>>
    /\ v_nums = <<>>
    /\ front = Zero
    /\ bound = InitialBound
    /\ counter = 0
    /\ i = InitialI
    /\ prime_count = [k \in 0..(NumBuckets - 1) |-> 0]
    /\ out = <<>>
    /\ output_file = <<>>
    /\ cerr = FALSE

\* std::ifstream file("new_table.txt"); if ( file.is_open() ) ... else
CounterOpen ==
    /\ prog = "counter" /\ pc = "start"
    /\ \E ok \in BOOLEAN :
          IF ok THEN pc' = "getline" /\ cerr' = cerr
                ELSE pc' = "done" /\ cerr' = TRUE
    /\ UNCHANGED <<prog, file, line, v_nums, front, bound, counter, i,
                   prime_count, out, output_file>>

\* v_nums has storage once a line has pushed a token (clear() keeps it).
HasStorage(f) == \E n \in 1..Len(f) : f[n] # <<>>

\* while( std::getline(file, line) ) with the tokenizing loop, up to the
\* first evaluation of v_nums[0].
ReadLine(next) ==
    \/ /\ pc' = next
       /\ UNCHANGED <<file, line, v_nums, front>>
    \/ /\ Len(file) < MaxLines
       /\ \E l \in Lines(prog) :
             /\ file' = Append(file, l)
             /\ line' = l
             /\ v_nums' = Pushed(Split(l))
             /\ IF Throws(Split(l))
                THEN pc' = "terminate" /\ front' = front
                ELSE \E f \in FrontOutcomes(Pushed(Split(l)), HasStorage(file)) :
                        IF f.fault THEN pc' = "segv" /\ front' = front
                        ELSE pc' = "body" /\ front' = f.val

CounterGetline ==
    /\ prog = "counter" /\ pc = "getline"
    /\ ReadLine("final")
    /\ UNCHANGED <<prog, bound, counter, i, prime_count, out, output_file, cerr>>

\* while( bound < v_nums[0] ) { i++; bound *= 10; print the row }
CounterWhile ==
    /\ prog = "counter" /\ pc = "body"
    /\ MpzLess(bound, front)
    /\ i' = i + 1
    /\ bound' = MpzMul10(bound)
    /\ out' = Append(out, Row(prime_count))
    /\ UNCHANGED <<prog, pc, file, line, v_nums, front, counter, prime_count,
                   output_file, cerr>>

\* counter++; prime_count[ v_nums.size() ]++; v.clear(); v_nums.clear();
CounterCount ==
    /\ prog = "counter" /\ pc = "body"
    /\ ~MpzLess(bound, front)
    /\ v_nums' = <<>>
    /\ IF BucketIndex(v_nums) < NumBuckets
       THEN /\ prime_count' = Bump(prime_count, BucketIndex(v_nums))
            /\ counter' = counter + 1
            /\ i' = i
            /\ pc' = "getline"
       ELSE \E o \in OutOfRangeOutcomes :
               /\ prime_count' = prime_count
               /\ counter' = counter + 1
               /\ i' = IF o = "i" THEN i + 1 ELSE i
               /\ pc' = IF o = "abort" THEN "abort" ELSE "getline"
    /\ UNCHANGED <<prog, file, line, front, bound, out, output_file, cerr>>

\* The row printed after the last line, and file.close().
CounterFinal ==
    /\ prog = "counter" /\ pc = "final"
    /\ out' = out \o FinalRows(prime_count)
    /\ pc' = "done"
    /\ UNCHANGED <<prog, file, line, v_nums, front, bound, counter, i,
                   prime_count, output_file, cerr>>

(***************************************************************************)
(* imprimitive.cpp                                                         *)
(***************************************************************************)
\* mpz_class divisor = 5717264681;
divisor == <<5, 7, 1, 7, 2, 6, 4, 6, 8, 1>>

\* The test were it against remainder 1.
DivisibleOffByOne(p) == MpzMod(p, divisor) = <<1>>

\* 0 == v_nums[0] % divisor
Divisible(p) == MpzMod(p, divisor) = Zero

\* output_file << line << std::endl;
WriteLine(f, l) == Append(f, l)

\* std::ifstream file("new_table.txt"); std::ofstream output_file("divisors.txt");
FilterOpen ==
    /\ prog = "imprimitive" /\ pc = "start"
    /\ \E ok \in BOOLEAN :
          IF ok THEN pc' = "getline" /\ cerr' = cerr
                ELSE pc' = "done" /\ cerr' = TRUE
    /\ UNCHANGED <<prog, file, line, v_nums, front, bound, counter, i,
                   prime_count, out, output_file>>

FilterGetline ==
    /\ prog = "imprimitive" /\ pc = "getline"
    /\ ReadLine("done")
    /\ UNCHANGED <<prog, bound, counter, i, prime_count, out, output_file, cerr>>

\* if( 0 == v_nums[0] % divisor ) output_file << line; v.clear(); v_nums.clear();
FilterTest ==
    /\ prog = "imprimitive" /\ pc = "body"
    /\ output_file' = IF Divisible(front) THEN WriteLine(output_file, line)
                      ELSE output_file
    /\ v_nums' = <<>>
    /\ pc' = "getline"
    /\ UNCHANGED <<prog, file, line, front, bound, counter, i, prime_count,
                   out, cerr>>

Next ==
    \/ CounterOpen
    \/ CounterGetline
    \/ CounterWhile
    \/ CounterCount
    \/ CounterFinal
    \/ FilterOpen
    \/ FilterGetline
    \/ FilterTest

Spec == Init /\ [][Next]_vars

(***************************************************************************)
(* What the input says, read off the lines without the programs' parsing   *)
(***************************************************************************)
\* A record line: decimal tokens separated by single spaces.
WellFormed(l) ==
    /\ l # <<>>
    /\ \A k \in 1..Len(l) : l[k] \in DigitChars \cup {" "}
    /\ l[1] # " " /\ l[Len(l)] # " "
    /\ \A k \in 1..(Len(l) - 1) : ~(l[k] = " " /\ l[k + 1] = " ")

AllWellFormed(f) == \A n \in 1..Len(f) : WellFormed(f[n])

\* Tokens of a record line: one more than its separators.
TokenCount(l) ==
    IF l = <<>> THEN 0 ELSE Cardinality({k \in 1..Len(l) : l[k] = " "}) + 1

DivisorCount(l) == TokenCount(l) - 1

PrincipalChars(l) ==
    LET S == {k \in 1..Len(l) : l[k] = " "}
    IN  IF S = {} THEN l
        ELSE SubSeq(l, 1, (CHOOSE m \in S : \A n \in S : m <= n) - 1)

RECURSIVE NumOfChars(_)
NumOfChars(c) ==
    IF c = <<>> THEN 0
    ELSE 10 * NumOfChars(SubSeq(c, 1, Len(c) - 1)) + DigitOf(c[Len(c)])

RECURSIVE Num(_)
Num(d) == IF d = <<>> THEN 0 ELSE 10 * Num(SubSeq(d, 1, Len(d) - 1)) + d[Len(d)]

\* The principal of a record line of the histogram input (below 2^31).
Principal(l) == NumOfChars(PrincipalChars(l))

\* The principal is k * 5717264681 for a k in 0..9, in two limbs of five
\* digits: 5717264681 = 57172 * 10^5 + 64681.
IsMultipleLine(l) ==
    LET c  == PrincipalChars(l)
        n  == Len(c)
        lo == NumOfChars(SubSeq(c, IF n > 5 THEN n - 4 ELSE 1, n))
        hi == IF n > 5 THEN NumOfChars(SubSeq(c, 1, n - 5)) ELSE 0
    IN  \E k \in 0..9 :
           /\ lo = (k * 64681) % 100000
           /\ hi = k * 57172 + (k * 64681) \div 100000

\* The histogram of the token counts 4..15 of the lines f.
Hist(f) ==
    [j \in 1..12 |-> Cardinality({n \in 1..Len(f) : TokenCount(f[n]) = j + 3})]

UnitRow(b) == [j \in 1..12 |-> IF j + 3 = b THEN 1 ELSE 0]

ZeroRow == [j \in 1..12 |-> 0]

RECURSIVE SumSeq(_)
SumSeq(r) == IF r = <<>> THEN 0 ELSE r[1] + SumSeq(Tail(r))

\* The bounds 1000, 10000, ... below p.
RECURSIVE BoundsBelow(_, _)
BoundsBelow(b, p) == IF b < p THEN 1 + BoundsBelow(10 * b, p) ELSE 0

StrictlyIncreasing(f) ==
    \A n \in 1..(Len(f) - 1) : Principal(f[n]) < Principal(f[n + 1])

AtEnd == pc = "done" /\ ~cerr

\* The rows printed by the threshold loop so far.
ThresholdRows == IF AtEnd THEN Len(out) - 1 ELSE Len(out)

L500 == RecordLine(<<"5", "0", "0">>, 3)
L1000 == RecordLine(<<"1", "0", "0", "0">>, 0)
L5000 == RecordLine(<<"5", "0", "0", "0">>, 7)
L50000 == RecordLine(<<"5", "0", "0", "0", "0">>, 14)
L500000 == RecordLine(<<"5", "0", "0", "0", "0", "0">>, 18)
LOnce == RecordLine(<<"5", "7", "1", "7", "2", "6", "4", "6", "8", "1">>, 3)
LNext == RecordLine(<<"5", "7", "1", "7", "2", "6", "4", "6", "8", "2">>, 1)
LTwice == RecordLine(<<"0", "1", "1", "4", "3", "4", "5", "2", "9", "3", "6", "2">>, 2)

\* One pass of the threshold test on a record.
OnRecord == prog = "counter" /\ pc = "body" /\ v_nums # <<>>

Scales ==
    /\ Len(out') = Len(out) + 1
    /\ i' = i + 1
    /\ Num(bound') = 10 * Num(bound)
    /\ pc' = "body"

Counts == out' = out /\ bound' = bound /\ pc' # "body"

(***************************************************************************)
(* C1                                                                      *)
(***************************************************************************)
\* C1 as stated: on a record, a row is emitted and the threshold scaled
\* (i + 1, bound * 10) as long as principal >= bound, and the record is
\* counted only once bound > principal; a principal equal to the bound
\* triggers a row.
C1_Original ==
    [][OnRecord => IF Principal(line) >= Num(bound) THEN Scales ELSE Counts]_vars

\* C1 amended: on a record, a row is emitted and the threshold scaled as
\* long as principal > bound, and the record is counted as soon as
\* bound >= principal; a principal equal to the bound triggers no row.
C1_Amended ==
    [][OnRecord => IF Principal(line) > Num(bound) THEN Scales ELSE Counts]_vars

\* The record 1000 was counted at the bound 1000 without a row, and the
\* record 50000 after it fired the loop twice.
C1_Witness ==
    /\ prog = "counter" /\ pc = "getline"
    /\ file = <<L1000, L50000>>
    /\ Len(out) = 2
    /\ out[1] = ZeroRow /\ out[2] = ZeroRow
    /\ Num(bound) = 100000

(***************************************************************************)
(* C2                                                                      *)
(***************************************************************************)
\* C2 as stated: an input of one record with 7 divisors gives a final row
\* with bucket 7 equal to 1 and every other reported bucket 0.
C2_Original ==
    (prog = "counter" /\ AtEnd /\ Len(file) = 1 /\ WellFormed(file[1])
        /\ DivisorCount(file[1]) = 7)
    => out[Len(out)] = UnitRow(7)

\* C2 amended: the bucket of a record is its number of tokens, the principal
\* included: an input of one record with d divisors (d + 1 < 20) gives a
\* final row with bucket d + 1 equal to 1 (if d + 1 is in 4..15) and every
\* other reported bucket 0; with 7 divisors that is bucket 8.
C2_Amended ==
    (prog = "counter" /\ AtEnd /\ Len(file) = 1 /\ WellFormed(file[1])
        /\ TokenCount(file[1]) < NumBuckets)
    => out[Len(out)] = UnitRow(DivisorCount(file[1]) + 1)

C2_Witness ==
    /\ prog = "counter" /\ AtEnd
    /\ file = <<L5000>>
    /\ DivisorCount(file[1]) = 7
    /\ out[Len(out)] = UnitRow(8)

(***************************************************************************)
(* C3                                                                      *)
(***************************************************************************)
\* C3: a row emitted while record r is processed is the histogram of the
\* records before r, r not counted; and an input of strictly increasing
\* principals that passes k of the bounds 1000, 10000, ... prints k such
\* rows and then 1 final row.
C3_Snapshot ==
    /\ [][(prog = "counter" /\ pc = "body" /\ out' # out)
            => out' = Append(out, Hist(SubSeq(file, 1, Len(file) - 1)))]_vars
    /\ []((prog = "counter" /\ AtEnd /\ file # <<>> /\ AllWellFormed(file)
             /\ StrictlyIncreasing(file))
          => Len(out) = BoundsBelow(1000, Principal(file[Len(file)])) + 1)

C3_Witness ==
    /\ prog = "counter" /\ AtEnd
    /\ file = <<L500, L5000, L50000, L500000>>
    /\ Len(out) = 4
    /\ out[1] = UnitRow(4)
    /\ out[2] = Hist(<<L500, L5000>>)
    /\ out[3] = Hist(<<L500, L5000, L50000>>)
    /\ SumSeq(out[3]) = 3 /\ SumSeq(out[4]) = 3

(***************************************************************************)
(* C4                                                                      *)
(***************************************************************************)
\* C4: on well-formed lines, divisors.txt holds exactly the input lines
\* whose principal is a multiple of 5717264681, unmodified and in input
\* order, after every line and at the end.
C4_FilterOutput ==
    (prog = "imprimitive" /\ pc \in {"getline", "done"} /\ AllWellFormed(file))
    => output_file = SelectSeq(file, IsMultipleLine)

C4_Witness ==
    /\ prog = "imprimitive" /\ AtEnd
    /\ file = <<LOnce, LNext, LTwice>>
    /\ output_file = <<LOnce, LTwice>>

(***************************************************************************)
(* C5                                                                      *)
(***************************************************************************)
\* C5: before the end of the stream only threshold rows are printed, one per
\* scaling; at the end there is exactly one more row, the last, with the
\* counts of all lines, whether or not the loop fired; an empty input gives
\* the one all-zero row and an empty filter output.
C5_FinalRow ==
    /\ (prog = "counter" /\ ~AtEnd) => Len(out) = Len(bound) - Len(InitialBound)
    /\ (prog = "counter" /\ AtEnd)
         => /\ Len(out) = Len(bound) - Len(InitialBound) + 1
            /\ out[Len(out)] = Hist(file)
            /\ file = <<>> => out = <<ZeroRow>>
    /\ (prog = "imprimitive" /\ AtEnd /\ file = <<>>) => output_file = <<>>

C5_Witness ==
    /\ prog = "counter" /\ AtEnd
    /\ file = <<>>
    /\ out = <<ZeroRow>>

(***************************************************************************)
(* C6                                                                      *)
(***************************************************************************)
\* C6 as stated: for a non-empty input the final row's sum plus bucket 19
\* is the number of records.
C6_Original ==
    (prog = "counter" /\ AtEnd /\ file # <<>> /\ AllWellFormed(file))
    => SumSeq(out[Len(out)]) + prime_count[NumBuckets - 1] = Len(file)

\* C6 amended: for a non-empty input the final row's sum is the number of
\* records with 4 to 15 tokens (3 to 14 divisors).
C6_Amended ==
    (prog = "counter" /\ AtEnd /\ file # <<>> /\ AllWellFormed(file))
    => SumSeq(out[Len(out)])
         = Cardinality({n \in 1..Len(file) : TokenCount(file[n]) \in FirstCol..LastCol})

C6_Witness ==
    /\ prog = "counter" /\ AtEnd
    /\ file = <<L500, L1000, L500>>
    /\ SumSeq(out[Len(out)]) = 2
    /\ prime_count[NumBuckets - 1] = 0

(***************************************************************************)
(* C7                                                                      *)
(***************************************************************************)
\* C7: counting a record increments exactly one bucket of the 20-slot table
\* by exactly 1, at an index inside 0..19, and leaves the others unchanged.
C7_InRange ==
    [][(OnRecord /\ WellFormed(line) /\ pc' # "body")
         => /\ pc' = "getline"
            /\ \E k \in 0..(NumBuckets - 1) :
                  prime_count' = [prime_count EXCEPT ![k] = @ + 1]]_vars

(***************************************************************************)
(* C8                                                                      *)
(***************************************************************************)
\* C8: in every state bound = 1000 * 10^(i - 2), and i - 2 is the number of
\* threshold rows emitted so far.
C8_ThresholdState ==
    prog = "counter"
    => /\ bound = InitialBound \o [k \in 1..(i - InitialI) |-> 0]
       /\ i - InitialI = ThresholdRows

(***************************************************************************)
(* C9                                                                      *)
(***************************************************************************)
\* C9: a line that is empty or holds a token that is no decimal integer
\* changes no bucket and no threshold state, emits no row and writes no
\* line to the filter output.
C9_NoEffect ==
    [][(pc = "body" /\ ~WellFormed(line))
         => /\ prime_count' = prime_count
            /\ bound' = bound /\ i' = i
            /\ out' = out
            /\ output_file' = output_file]_vars

(***************************************************************************)
(* C10                                                                     *)
(***************************************************************************)
\* C10: after a record is counted bound is the least 1000 * 10^k that is at
\* least the largest principal so far, and a record whose principal is below
\* the bound already reached emits no row and changes neither bound nor i.
C10_LeastBound ==
    /\ []((prog = "counter" /\ pc = "getline" /\ file # <<>> /\ AllWellFormed(file))
          => /\ \A n \in 1..Len(file) : Principal(file[n]) <= Num(bound)
             /\ \E n \in 1..Len(file) :
                   Len(bound) - Len(InitialBound)
                     = BoundsBelow(1000, Principal(file[n])))
    /\ [][(OnRecord /\ WellFormed(line) /\ Principal(line) < Num(bound))
            => (out' = out /\ bound' = bound /\ i' = i)]_vars
====
